---- MODULE Spec2Model ----
(***************************************************************************)
(* Model of the baby-cradle controller in backedcode.c: the cooperative    *)
(* loop() that samples the sensors every 500 ms, applies the threshold     *)
(* rules and advances the cradle swing, the buzzer pattern and the diaper  *)
(* alert timer against the millis() clock.                                 *)
(*                                                                         *)
(* One step is one complete pass of loop().       Time is the millis()     *)
(* counter `ms`; it advances between passes, while the sensors are read,   *)
(* and by the delays of sendSMS.  Temperatures are in tenths of a degree.  *)
(***************************************************************************)
EXTENDS Integers, Sequences, FiniteSets, TLC

(* ---------------- program constants ---------------- *)
(* BOOT_DELAY: the delays of setup() and initializeGSM(), 2000 + 3000 +    *)
(* 1000 + 500 ms, when the modem answers the first probe.                  *)
TEMPERATURE_THRESHOLD == 300
WETNESS_THRESHOLD == 500
CRADLE_SWING_SPEED == 30
CRADLE_POS_REST == 60
CRADLE_POS_MIN == 30
CRADLE_POS_MAX == 90
SENSOR_PERIOD == 500
DIAPER_ALERT_MS == 5000
SWING_CYCLES == 3
BEEPS == 3
CRY_ON == 200
CRY_OFF == 200
WET_ON == 500
WET_OFF == 500
SMS_DELAY == 2100
BOOT_DELAY == 6500
NAN == -1
IntMax == 2147483647

(* ---------------- bounds of the model ---------------- *)
MaxTime == 12000
MaxSwingTime == 22500
MaxSms == 2
MaxFineTime == 9300
MaxTriggerTime == 9000
MaxWrapTime == 6500
WrapLead == 700

TickDeltas == {0, 30}
ReadLags == {0, 20}
FineDeltas == {10, 20}
TempReadings == {NAN, 250, 290, 300, 310}
SoilReadings == {400, 500}
SoundReadings == {"LOW", "HIGH"}

VARIABLES
    ms,                      \* millis(): the millisecond counter
    currentTime,             \* loop(): the timestamp of the last pass
    lastSensorReadTime,
    isDiaperAlertActive, diaperAlertStartTime,
    cradleState, lastSwingTime, swingCycles,
    isBuzzerActive, buzzerPatternStartTime, beepCount, buzzerMode,
    servoPos,                \* cradleServo.read()
    fanPin, buzzerPin,       \* levels of FAN_RELAY_PIN and BUZZER_PIN
    smsCry, smsWet,          \* number of sendSMS calls of each message
    sampled, temperature, soilValue, soundValue,  \* readings of the last pass
    afterRules,              \* state right after the sampling block of the last pass
    fwdSweeps, backSweeps, sweepFrom,   \* history of the current swing
    pulses, edgeTime, shortPulse, shortGap, \* history of the current pattern
    lcdLine1,                \* the status line of the display
    trueTime                 \* elapsed time without wraparound: of the counter,
                             \* of the last pass and of the four time stamps

vars == << ms, currentTime, lastSensorReadTime, isDiaperAlertActive,
           diaperAlertStartTime, cradleState, lastSwingTime, swingCycles,
           isBuzzerActive, buzzerPatternStartTime, beepCount, buzzerMode,
           servoPos, fanPin, buzzerPin, smsCry, smsWet, sampled, temperature,
           soilValue, soundValue, afterRules, fwdSweeps, backSweeps, sweepFrom,
           pulses, edgeTime, shortPulse, shortGap, lcdLine1, trueTime >>

(***************************************************************************)
(* unsigned long is 32 bits wide.  A value u is kept in two's complement:  *)
(* u itself below 2^31, and u - 2^32 from 2^31 on, so that every value     *)
(* fits the integers of the model checker and the arithmetic stays exact.  *)
(***************************************************************************)
UAdd(a, n) ==
    IF a >= 0 /\ a > IntMax - n
    THEN ((a - IntMax) - 1) + ((n - IntMax) - 1)
    ELSE a + n

(* a - b without the wraparound: 0 when a is below b as unsigned numbers *)
USubClamped(a, b) ==
    IF (IF (a < 0) = (b < 0) THEN a < b ELSE b < 0) THEN 0 ELSE a - b

USub(a, b) ==
    IF a >= 0 /\ b < 0 /\ a > IntMax + b
    THEN ((a - IntMax) - 1) + ((-1 - b) - IntMax)
    ELSE IF a < 0 /\ b >= 0 /\ (a + IntMax) + 1 < b
         THEN ((a + IntMax) + 1) + ((IntMax - b) + 1)
         ELSE a - b

(* unsigned comparison of x with a constant k below 2^31 *)
UGe(x, k) == x < 0 \/ x >= k
UGt(x, k) == x < 0 \/ x > k
ULt(x, k) == ~UGe(x, k)

(* x % m for an unsigned x and a small m; 2^32 % m is (2^16 % m)^2 % m *)
UMod(x, m) ==
    IF x >= 0 THEN x % m
    ELSE ((x % m) + (((65536 % m) * (65536 % m)) % m)) % m

(* the program state as one record, so that the handlers are functions *)
State ==
    [ ms |-> ms, lastSensorReadTime |-> lastSensorReadTime,
      isDiaperAlertActive |-> isDiaperAlertActive,
      diaperAlertStartTime |-> diaperAlertStartTime,
      cradleState |-> cradleState, lastSwingTime |-> lastSwingTime,
      swingCycles |-> swingCycles, isBuzzerActive |-> isBuzzerActive,
      buzzerPatternStartTime |-> buzzerPatternStartTime,
      beepCount |-> beepCount, buzzerMode |-> buzzerMode,
      servoPos |-> servoPos, fanPin |-> fanPin, buzzerPin |-> buzzerPin,
      smsCry |-> smsCry, smsWet |-> smsWet,
      fwdSweeps |-> fwdSweeps, backSweeps |-> backSweeps, sweepFrom |-> sweepFrom,
      pulses |-> pulses, edgeTime |-> edgeTime, shortPulse |-> shortPulse,
      shortGap |-> shortGap, lcdLine1 |-> lcdLine1, startCalls |-> 0, dropped |-> 0, sampled |-> "no",
      up |-> trueTime.up, nowUp |-> trueTime.now, sampleUp |-> trueTime.sample,
      swingUp |-> trueTime.swing, patternUp |-> trueTime.pattern,
      diaperUp |-> trueTime.diaper ]

(* delay(n): the counter advances while the program waits *)
Delay(s, n) == [s EXCEPT !.ms = UAdd(s.ms, n), !.up = @ + n]

(* sendSMS: three delays, 1000 + 100 + 1000 ms, around the AT commands *)
SendSMS(s, which) ==
    LET t == Delay(s, SMS_DELAY)
    IN  IF which = "cry" THEN [t EXCEPT !.smsCry = @ + 1]
                         ELSE [t EXCEPT !.smsWet = @ + 1]

(* digitalWrite(BUZZER_PIN, level), with the history of the pin's edges *)
WriteBuzzer(s, level) ==
    IF level = s.buzzerPin THEN s
    ELSE IF level = "HIGH"
         THEN [s EXCEPT !.buzzerPin = "HIGH",
                        !.pulses = @ + 1,
                        !.shortGap = @ \/ (s.pulses > 0 /\ ULt(USub(s.ms, s.edgeTime), CRY_OFF)),
                        !.edgeTime = s.ms]
         ELSE [s EXCEPT !.buzzerPin = "LOW",
                        !.shortPulse = @ \/ ULt(USub(s.ms, s.edgeTime), CRY_ON),
                        !.edgeTime = s.ms]

(* StartBuzzer without the early return: the last request wins *)
StartBuzzerRestart(s, mode, count) ==
    LET c == [s EXCEPT !.startCalls = @ + 1]
    IN  [c EXCEPT !.buzzerMode = mode,
                  !.beepCount = count * 2,
                  !.buzzerPatternStartTime = c.ms, !.patternUp = c.up,
                  !.isBuzzerActive = TRUE,
                  !.pulses = 0, !.shortPulse = FALSE, !.shortGap = FALSE,
                  !.edgeTime = c.ms]

StartBuzzer(s, mode, count) ==
    LET c == [s EXCEPT !.startCalls = @ + 1]
    IN  IF c.isBuzzerActive THEN [c EXCEPT !.dropped = @ + 1]
        ELSE [c EXCEPT !.buzzerMode = mode,
                       !.beepCount = count * 2,
                       !.buzzerPatternStartTime = c.ms, !.patternUp = c.up,
                       !.isBuzzerActive = TRUE,
                       !.pulses = 0, !.shortPulse = FALSE, !.shortGap = FALSE,
                       !.edgeTime = c.ms]

(* HandleTemperature with >= for > *)
HandleTemperatureInclusive(s, temp) ==
    IF temp >= TEMPERATURE_THRESHOLD
    THEN [s EXCEPT !.fanPin = "LOW"]
    ELSE [s EXCEPT !.fanPin = "HIGH"]

HandleTemperature(s, temp) ==
    IF temp > TEMPERATURE_THRESHOLD
    THEN [s EXCEPT !.fanPin = "LOW"]
    ELSE [s EXCEPT !.fanPin = "HIGH"]

(* HandleCry without the test of the cradle being idle *)
HandleCryAlways(s, sound) ==
    IF sound = "LOW"
    THEN SendSMS(StartBuzzer([s EXCEPT !.cradleState = "SWINGING_FORWARD",
                                       !.swingCycles = SWING_CYCLES,
                                       !.fwdSweeps = 0, !.backSweeps = 0,
                                       !.sweepFrom = s.servoPos],
                             "CRY_ALERT", BEEPS), "cry")
    ELSE s

(* HandleCry that arms one cycle too many *)
HandleCryExtraCycle(s, sound) ==
    IF sound = "LOW" /\ s.cradleState = "IDLE"
    THEN SendSMS(StartBuzzer([s EXCEPT !.cradleState = "SWINGING_FORWARD",
                                       !.swingCycles = SWING_CYCLES + 1,
                                       !.fwdSweeps = 0, !.backSweeps = 0,
                                       !.sweepFrom = s.servoPos],
                             "CRY_ALERT", BEEPS), "cry")
    ELSE s

HandleCry(s, sound) ==
    IF sound = "LOW" /\ s.cradleState = "IDLE"
    THEN SendSMS(StartBuzzer([s EXCEPT !.cradleState = "SWINGING_FORWARD",
                                       !.swingCycles = SWING_CYCLES,
                                       !.fwdSweeps = 0, !.backSweeps = 0,
                                       !.sweepFrom = s.servoPos],
                             "CRY_ALERT", BEEPS), "cry")
    ELSE s

HandleUrine(s, soil) ==
    IF soil < WETNESS_THRESHOLD /\ ~s.isDiaperAlertActive
    THEN SendSMS(StartBuzzer([s EXCEPT !.isDiaperAlertActive = TRUE,
                                       !.diaperAlertStartTime = s.ms,
                                       !.diaperUp = s.up],
                             "WET_ALERT", BEEPS), "wet")
    ELSE s

(* SwingForward with the limit test off by one: the servo passes 90 *)
SwingForwardPastMax(t, currentPos) ==
    IF currentPos <= CRADLE_POS_MAX
    THEN [t EXCEPT !.servoPos = currentPos + 1]
    ELSE [t EXCEPT !.cradleState = "SWINGING_BACK",
                   !.fwdSweeps = @ + 1]

(* case SWINGING_FORWARD of manageCradleSwing *)
SwingForward(t, currentPos) ==
    IF currentPos < CRADLE_POS_MAX
    THEN [t EXCEPT !.servoPos = currentPos + 1]
    ELSE [t EXCEPT !.cradleState = "SWINGING_BACK",
                   !.fwdSweeps = @ + 1]

(* SwingBack that tests the counter before decrementing it *)
SwingBackLateTest(t, currentPos) ==
    IF currentPos > CRADLE_POS_MIN
    THEN [t EXCEPT !.servoPos = currentPos - 1]
    ELSE LET u == [t EXCEPT !.swingCycles = @ - 1, !.backSweeps = @ + 1]
         IN  IF t.swingCycles > 0
             THEN [u EXCEPT !.cradleState = "SWINGING_FORWARD",
                            !.sweepFrom = currentPos]
             ELSE [u EXCEPT !.cradleState = "RETURNING"]

(* SwingBack that does not count the cycle down *)
SwingBackNoDecrement(t, currentPos) ==
    IF currentPos > CRADLE_POS_MIN
    THEN [t EXCEPT !.servoPos = currentPos - 1]
    ELSE LET u == [t EXCEPT !.backSweeps = @ + 1]
         IN  IF u.swingCycles > 0
             THEN [u EXCEPT !.cradleState = "SWINGING_FORWARD",
                            !.sweepFrom = currentPos]
             ELSE [u EXCEPT !.cradleState = "RETURNING"]

(* case SWINGING_BACK of manageCradleSwing *)
SwingBack(t, currentPos) ==
    IF currentPos > CRADLE_POS_MIN
    THEN [t EXCEPT !.servoPos = currentPos - 1]
    ELSE LET u == [t EXCEPT !.swingCycles = @ - 1, !.backSweeps = @ + 1]
         IN  IF u.swingCycles > 0
             THEN [u EXCEPT !.cradleState = "SWINGING_FORWARD",
                            !.sweepFrom = currentPos]
             ELSE [u EXCEPT !.cradleState = "RETURNING"]

(* Returning that stops one degree short of the rest angle *)
ReturningStopsShort(t, currentPos) ==
    IF currentPos < CRADLE_POS_REST - 1
    THEN [t EXCEPT !.servoPos = currentPos + 1]
    ELSE IF currentPos > CRADLE_POS_REST
         THEN [t EXCEPT !.servoPos = currentPos - 1]
         ELSE [t EXCEPT !.cradleState = "IDLE", !.lcdLine1 = "blank"]

(* case RETURNING of manageCradleSwing *)
Returning(t, currentPos) ==
    IF currentPos < CRADLE_POS_REST
    THEN [t EXCEPT !.servoPos = currentPos + 1]
    ELSE IF currentPos > CRADLE_POS_REST
         THEN [t EXCEPT !.servoPos = currentPos - 1]
         ELSE [t EXCEPT !.cradleState = "IDLE", !.lcdLine1 = "blank"]

(* ManageCradleSwing without the test of the step time *)
ManageCradleSwingUngated(s, now) ==
    IF s.cradleState = "IDLE"
    THEN s
    ELSE LET t == [s EXCEPT !.lastSwingTime = now, !.swingUp = s.nowUp]
             currentPos == s.servoPos
         IN  CASE s.cradleState = "SWINGING_FORWARD" -> SwingForward(t, currentPos)
               [] s.cradleState = "SWINGING_BACK" -> SwingBack(t, currentPos)
               [] s.cradleState = "RETURNING" -> Returning(t, currentPos)

ManageCradleSwing(s, now) ==
    IF s.cradleState = "IDLE"
       \/ ULt(USub(now, s.lastSwingTime), CRADLE_SWING_SPEED)
    THEN s
    ELSE LET t == [s EXCEPT !.lastSwingTime = now, !.swingUp = s.nowUp]
             currentPos == s.servoPos
         IN  CASE s.cradleState = "SWINGING_FORWARD" -> SwingForward(t, currentPos)
               [] s.cradleState = "SWINGING_BACK" -> SwingBack(t, currentPos)
               [] s.cradleState = "RETURNING" -> Returning(t, currentPos)

(* the ON or OFF part of the beep cycle *)
BeepLevel(elapsedTime, onDuration, offDuration) ==
    IF UMod(elapsedTime, onDuration + offDuration) < onDuration
    THEN "HIGH" ELSE "LOW"

(* the end of a full ON and OFF cycle *)
ConsumeBeep(w, now, elapsedTime, onDuration, offDuration) ==
    IF UGe(elapsedTime, onDuration + offDuration)
    THEN [w EXCEPT !.beepCount = @ - 2,
                   !.buzzerPatternStartTime = now, !.patternUp = w.nowUp]
    ELSE w

(* PatternFinished that leaves the mode as it was *)
PatternFinishedKeepMode(s) ==
    [WriteBuzzer(s, "LOW") EXCEPT !.isBuzzerActive = FALSE]

(* PatternFinished that does not write the pin *)
PatternFinishedNoWrite(s) ==
    [s EXCEPT !.isBuzzerActive = FALSE, !.buzzerMode = "OFF"]

(* the pattern is finished *)
PatternFinished(s) ==
    [WriteBuzzer(s, "LOW") EXCEPT !.isBuzzerActive = FALSE,
                                  !.buzzerMode = "OFF"]

ManageBuzzer(s, now) ==
    IF ~s.isBuzzerActive THEN s
    ELSE LET onDuration  == IF s.buzzerMode = "CRY_ALERT" THEN CRY_ON ELSE WET_ON
             offDuration == IF s.buzzerMode = "CRY_ALERT" THEN CRY_OFF ELSE WET_OFF
             elapsedTime == USub(now, s.buzzerPatternStartTime)
         IN  IF s.beepCount > 0
             THEN ConsumeBeep(
                      WriteBuzzer(s, BeepLevel(elapsedTime, onDuration, offDuration)),
                      now, elapsedTime, onDuration, offDuration)
             ELSE PatternFinished(s)

(* manageDiaperAlertMessage that also silences the buzzer when it clears *)
ManageDiaperAlertMessageSilences(s, now) ==
    IF s.isDiaperAlertActive /\ UGt(USub(now, s.diaperAlertStartTime), DIAPER_ALERT_MS)
    THEN [s EXCEPT !.isDiaperAlertActive = FALSE, !.isBuzzerActive = FALSE,
                   !.buzzerPin = "LOW"]
    ELSE s

ManageDiaperAlertMessage(s, now) ==
    IF s.isDiaperAlertActive /\ UGt(USub(now, s.diaperAlertStartTime), DIAPER_ALERT_MS)
    THEN [s EXCEPT !.isDiaperAlertActive = FALSE]
    ELSE s

(* the status line written by updateLCD *)
UpdateLCD(s) ==
    [s EXCEPT !.lcdLine1 = IF s.cradleState # "IDLE" THEN "Cradle Swinging"
                           ELSE IF s.isDiaperAlertActive THEN "Diaper is Wet!"
                           ELSE "System OK"]

(* Rules without the isnan test *)
RulesUnchecked(s, temp, soil, sound) ==
    UpdateLCD(HandleUrine(HandleCry(HandleTemperature(
                              [s EXCEPT !.sampled = IF temp # NAN THEN "ok" ELSE @],
                              temp), sound), soil))

(* the three rules and the display update of a valid sample *)
Rules(s, temp, soil, sound) ==
    IF temp # NAN
    THEN UpdateLCD(HandleUrine(HandleCry(HandleTemperature([s EXCEPT !.sampled = "ok"],
                                                           temp),
                                         sound), soil))
    ELSE s

(* Sample that does not stamp the time of the sample *)
SampleNoStamp(s, now, lag, temp, soil, sound) ==
    IF UGe(USub(now, s.lastSensorReadTime), SENSOR_PERIOD)
    THEN Rules(Delay([s EXCEPT !.sampled = "nan"], lag), temp, soil, sound)
    ELSE s

(* the sampling block of loop(): reading the sensors takes `lag` ms *)
Sample(s, now, lag, temp, soil, sound) ==
    IF UGe(USub(now, s.lastSensorReadTime), SENSOR_PERIOD)
    THEN Rules(Delay([s EXCEPT !.lastSensorReadTime = now, !.sampleUp = s.nowUp,
                               !.sampled = "nan"], lag),
               temp, soil, sound)
    ELSE s

Advance(s, now) ==
    ManageDiaperAlertMessage(ManageBuzzer(ManageCradleSwing(s, now), now), now)

(* the three advances of a pass made in the order o *)
AdvanceOne(name, s, now) ==
    CASE name = "cradle" -> ManageCradleSwing(s, now)
      [] name = "buzzer" -> ManageBuzzer(s, now)
      [] name = "diaper" -> ManageDiaperAlertMessage(s, now)

AdvanceIn(o, s, now) ==
    AdvanceOne(o[3], AdvanceOne(o[2], AdvanceOne(o[1], s, now), now), now)

Orders ==
    { o \in [1..3 -> {"cradle", "buzzer", "diaper"}] :
        \A i, j \in 1..3 : i # j => o[i] # o[j] }

OrderFree(s, now) == \A o \in Orders : AdvanceIn(o, s, now) = Advance(s, now)

(* what afterRules keeps of the state after the sampling block: all but    *)
(* the counter, the stamp of the sample and what the sample was            *)
Snapshot(s) ==
    [ cradleState |-> s.cradleState, swingCycles |-> s.swingCycles,
      isBuzzerActive |-> s.isBuzzerActive, buzzerMode |-> s.buzzerMode,
      beepCount |-> s.beepCount,
      buzzerPatternStartTime |-> s.buzzerPatternStartTime,
      isDiaperAlertActive |-> s.isDiaperAlertActive,
      diaperAlertStartTime |-> s.diaperAlertStartTime,
      fanPin |-> s.fanPin, servoPos |-> s.servoPos, buzzerPin |-> s.buzzerPin,
      smsCry |-> s.smsCry, smsWet |-> s.smsWet, startCalls |-> s.startCalls,
      dropped |-> s.dropped, patternUp |-> s.patternUp, diaperUp |-> s.diaperUp,
      lastSwingTime |-> s.lastSwingTime, swingUp |-> s.swingUp,
      fwdSweeps |-> s.fwdSweeps, backSweeps |-> s.backSweeps,
      sweepFrom |-> s.sweepFrom, pulses |-> s.pulses, edgeTime |-> s.edgeTime,
      shortPulse |-> s.shortPulse, shortGap |-> s.shortGap,
      lcdLine1 |-> s.lcdLine1 ]

(* the state after the sampling block of the last pass, from afterRules *)
AfterRulesState ==
    afterRules @@ [ ms |-> ms, up |-> trueTime.up, nowUp |-> trueTime.now,
                    lastSensorReadTime |-> lastSensorReadTime,
                    sampleUp |-> trueTime.sample, sampled |-> sampled ]

Init ==
    /\ ms = BOOT_DELAY
    /\ currentTime = 0
    /\ lastSensorReadTime = 0
    /\ isDiaperAlertActive = FALSE
    /\ diaperAlertStartTime = 0
    /\ cradleState = "IDLE"
    /\ lastSwingTime = 0
    /\ swingCycles = 0
    /\ isBuzzerActive = FALSE
    /\ buzzerPatternStartTime = 0
    /\ beepCount = 0
    /\ buzzerMode = "OFF"
    /\ servoPos = CRADLE_POS_REST
    /\ fanPin = "HIGH"
    /\ buzzerPin = "LOW"
    /\ smsCry = 0
    /\ smsWet = 0
    /\ sampled = "no"
    /\ temperature = NAN
    /\ soilValue = 500
    /\ soundValue = "HIGH"
    /\ fwdSweeps = 0
    /\ backSweeps = 0
    /\ sweepFrom = CRADLE_POS_REST
    /\ pulses = 0
    /\ edgeTime = 0
    /\ shortPulse = FALSE
    /\ shortGap = FALSE
    /\ lcdLine1 = "blank"
    /\ trueTime = [up |-> BOOT_DELAY, now |-> 0, sample |-> 0, swing |-> 0,
                   pattern |-> 0, diaper |-> 0]
    /\ afterRules = Snapshot(State)

(***************************************************************************)
(* One pass of loop(), d ms after the previous pass returned.  The time    *)
(* `lag` spent reading the sensors is told apart from the delay before the *)
(* next pass only when a rule reads millis() again, so it is chosen in the *)
(* passes that call startBuzzer.  The pass is taken while the counter is   *)
(* within `limit` and the alerts sent within MaxSms.                       *)
(***************************************************************************)
Loop(d, lag, temp, soil, sound, limit) ==
    \E s0 \in {[Delay(State, d) EXCEPT !.nowUp = trueTime.up + d]} :
    \E s1 \in {Sample(s0, s0.ms, lag, temp, soil, sound)} :
    \E s2 \in {Advance(s1, s0.ms)} :
    LET now == s0.ms
    IN  /\ s0.up <= limit
        /\ s2.smsCry + s2.smsWet <= MaxSms
        /\ lag > 0 => s1.startCalls > 0
        /\ ms' = s2.ms
        /\ currentTime' = now
        /\ lastSensorReadTime' = s2.lastSensorReadTime
        /\ isDiaperAlertActive' = s2.isDiaperAlertActive
        /\ diaperAlertStartTime' = s2.diaperAlertStartTime
        /\ cradleState' = s2.cradleState
        /\ lastSwingTime' = s2.lastSwingTime
        /\ swingCycles' = s2.swingCycles
        /\ isBuzzerActive' = s2.isBuzzerActive
        /\ buzzerPatternStartTime' = s2.buzzerPatternStartTime
        /\ beepCount' = s2.beepCount
        /\ buzzerMode' = s2.buzzerMode
        /\ servoPos' = s2.servoPos
        /\ fanPin' = s2.fanPin
        /\ buzzerPin' = s2.buzzerPin
        /\ smsCry' = s2.smsCry
        /\ smsWet' = s2.smsWet
        /\ sampled' = s2.sampled
        /\ temperature' = temp
        /\ soilValue' = soil
        /\ soundValue' = sound
        /\ afterRules' = Snapshot(s1)
        /\ fwdSweeps' = s2.fwdSweeps
        /\ backSweeps' = s2.backSweeps
        /\ sweepFrom' = s2.sweepFrom
        /\ pulses' = s2.pulses
        /\ edgeTime' = s2.edgeTime
        /\ shortPulse' = s2.shortPulse
        /\ shortGap' = s2.shortGap
        /\ lcdLine1' = s2.lcdLine1
        /\ trueTime' = [up |-> s2.up, now |-> s2.nowUp, sample |-> s2.sampleUp,
                         swing |-> s2.swingUp, pattern |-> s2.patternUp,
                         diaper |-> s2.diaperUp]

(* a pass in which the sensors are read *)
SampleTick ==
    \E d \in TickDeltas, lag \in ReadLags, temp \in TempReadings,
       soil \in SoilReadings, sound \in SoundReadings :
        /\ UGe(USub(UAdd(ms, d), lastSensorReadTime), SENSOR_PERIOD)
        /\ Loop(d, lag, temp, soil, sound, MaxTime)

(* a pass in which the sampling block is not due *)
IdleTick ==
    \E d \in TickDeltas :
        /\ ULt(USub(UAdd(ms, d), lastSensorReadTime), SENSOR_PERIOD)
        /\ Loop(d, 0, NAN, 500, "HIGH", MaxTime)

Next == SampleTick \/ IdleTick

Spec == Init /\ [][Next]_vars

(***************************************************************************)
(* The same loop over a horizon long enough for a whole swing (three       *)
(* cycles and the return to rest), with a dry diaper and a cool room.      *)
(***************************************************************************)
SwingSampleTick ==
    \E d \in TickDeltas, lag \in ReadLags, temp \in {NAN, 250},
       sound \in SoundReadings :
        /\ UGe(USub(UAdd(ms, d), lastSensorReadTime), SENSOR_PERIOD)
        /\ Loop(d, lag, temp, 500, sound, MaxSwingTime)

SwingIdleTick ==
    \E d \in TickDeltas :
        /\ ULt(USub(UAdd(ms, d), lastSensorReadTime), SENSOR_PERIOD)
        /\ Loop(d, 0, NAN, 500, "HIGH", MaxSwingTime)

SwingNext == SwingSampleTick \/ SwingIdleTick

SwingSpec == Init /\ [][SwingNext]_vars

(***************************************************************************)
(* The loop of SwingSpec called for ever, as the Arduino core does, with a *)
(* baby that cries only until MaxTriggerTime, so that a swing it starts    *)
(* fits the horizon.                                                       *)
(***************************************************************************)
LiveSampleTick ==
    \E d \in TickDeltas, lag \in ReadLags, temp \in {NAN, 250},
       sound \in SoundReadings :
        /\ UGe(USub(UAdd(ms, d), lastSensorReadTime), SENSOR_PERIOD)
        /\ sound = "LOW" => trueTime.up + d <= MaxTriggerTime
        /\ Loop(d, lag, temp, 500, sound, MaxSwingTime)

LiveNext == LiveSampleTick \/ SwingIdleTick

LiveSpec == Init /\ [][LiveNext]_vars /\ WF_vars(LiveNext)

(***************************************************************************)
(* The loop 49.7 days after boot, WrapLead ms before millis() wraps from   *)
(* 2^32 - 1 to 0.  The house is quiet: the last sample, just taken, was    *)
(* valid, cool, dry and silent; a swing ended a second ago, its cry alert  *)
(* pattern 12 s ago, and a diaper alert was raised 20 s ago.  True time is *)
(* counted from this instant.                                              *)
(***************************************************************************)
WrapInit ==
    /\ ms = -WrapLead
    /\ currentTime = -WrapLead
    /\ lastSensorReadTime = -WrapLead
    /\ isDiaperAlertActive = FALSE
    /\ diaperAlertStartTime = -WrapLead - 20000
    /\ cradleState = "IDLE"
    /\ lastSwingTime = -WrapLead - 1000
    /\ swingCycles = 0
    /\ isBuzzerActive = FALSE
    /\ buzzerPatternStartTime = -WrapLead - 12000
    /\ beepCount = 0
    /\ buzzerMode = "OFF"
    /\ servoPos = CRADLE_POS_REST
    /\ fanPin = "HIGH"
    /\ buzzerPin = "LOW"
    /\ smsCry = 0
    /\ smsWet = 0
    /\ sampled = "ok"
    /\ temperature = 250
    /\ soilValue = 500
    /\ soundValue = "HIGH"
    /\ fwdSweeps = SWING_CYCLES
    /\ backSweeps = SWING_CYCLES
    /\ sweepFrom = CRADLE_POS_MIN
    /\ pulses = 0
    /\ edgeTime = -WrapLead - 12000
    /\ shortPulse = FALSE
    /\ shortGap = FALSE
    /\ lcdLine1 = "System OK"
    /\ trueTime = [up |-> 0, now |-> 0, sample |-> 0, swing |-> -1000,
                   pattern |-> -12000, diaper |-> -20000]
    /\ afterRules = Snapshot(State)

WrapSampleTick ==
    \E d \in TickDeltas, lag \in ReadLags, temp \in {NAN, 250},
       soil \in SoilReadings, sound \in SoundReadings :
        /\ UGe(USub(UAdd(ms, d), lastSensorReadTime), SENSOR_PERIOD)
        /\ Loop(d, lag, temp, soil, sound, MaxWrapTime)

WrapIdleTick ==
    \E d \in TickDeltas :
        /\ ULt(USub(UAdd(ms, d), lastSensorReadTime), SENSOR_PERIOD)
        /\ Loop(d, 0, NAN, 500, "HIGH", MaxWrapTime)

WrapNext == WrapSampleTick \/ WrapIdleTick

WrapSpec == WrapInit /\ [][WrapNext]_vars

(***************************************************************************)
(* The same loop with passes 10 or 20 ms apart, shorter than the step      *)
(* period of the cradle, over the start of a swing.                        *)
(***************************************************************************)
FineSampleTick ==
    \E d \in FineDeltas, temp \in {NAN, 250}, sound \in SoundReadings :
        /\ UGe(USub(UAdd(ms, d), lastSensorReadTime), SENSOR_PERIOD)
        /\ Loop(d, 0, temp, 500, sound, MaxFineTime)

FineIdleTick ==
    \E d \in FineDeltas :
        /\ ULt(USub(UAdd(ms, d), lastSensorReadTime), SENSOR_PERIOD)
        /\ Loop(d, 0, NAN, 500, "HIGH", MaxFineTime)

FineNext == FineSampleTick \/ FineIdleTick

FineSpec == Init /\ [][FineNext]_vars

TypeOK ==
    /\ ms \in -IntMax..IntMax
    /\ cradleState \in {"IDLE", "SWINGING_FORWARD", "SWINGING_BACK", "RETURNING"}
    /\ buzzerMode \in {"OFF", "CRY_ALERT", "WET_ALERT"}
    /\ fanPin \in {"LOW", "HIGH"}
    /\ buzzerPin \in {"LOW", "HIGH"}
(* ======================= properties ======================= *)

(* the pass just made was due to step the cradle *)
StepDue == UGe(USub(currentTime', lastSwingTime), CRADLE_SWING_SPEED)

EntersIdle == cradleState # "IDLE" /\ cradleState' = "IDLE"

(* C1: the servo angle is always within [30, 90], and the cradle enters    *)
(* Idle in a pass if and only if that pass makes a Returning step that     *)
(* reads the angle at exactly 60.                                          *)
C1_AngleRangeIdleIffRest ==
    /\ [](servoPos \in CRADLE_POS_MIN..CRADLE_POS_MAX)
    /\ [][EntersIdle <=> (cradleState = "RETURNING" /\ StepDue
                          /\ servoPos = CRADLE_POS_REST)]_vars

(* a whole swing was made and the cradle is back in Idle at rest *)
C1_Witness ==
    /\ cradleState = "IDLE" /\ smsCry = 1 /\ backSweeps = SWING_CYCLES
    /\ servoPos = CRADLE_POS_REST

SweepCount ==
    /\ cradleState = "SWINGING_FORWARD" =>
           /\ swingCycles \in 1..SWING_CYCLES
           /\ fwdSweeps = SWING_CYCLES - swingCycles
           /\ backSweeps = SWING_CYCLES - swingCycles
           /\ sweepFrom = (IF fwdSweeps = 0 THEN CRADLE_POS_REST ELSE CRADLE_POS_MIN)
           /\ servoPos >= sweepFrom
    /\ cradleState = "SWINGING_BACK" =>
           /\ swingCycles \in 1..SWING_CYCLES
           /\ fwdSweeps = SWING_CYCLES - swingCycles + 1
           /\ backSweeps = SWING_CYCLES - swingCycles
    /\ cradleState = "RETURNING" =>
           /\ swingCycles = 0
           /\ fwdSweeps = SWING_CYCLES /\ backSweeps = SWING_CYCLES
           /\ servoPos \in CRADLE_POS_MIN..CRADLE_POS_REST

CryFires == sampled' = "ok" /\ soundValue' = "LOW" /\ cradleState = "IDLE"

(* the wetness rule fires in the pass just made *)
WetFires == sampled' = "ok" /\ soilValue' < WETNESS_THRESHOLD /\ ~isDiaperAlertActive

(* C3: a cry sample taken while the cradle is Idle sends exactly one "baby *)
(* crying" alert; no other pass sends one, and a cry sample taken while    *)
(* the cradle is not Idle changes nothing: no send, no change of the       *)
(* cradle, and (unless the wetness rule fires) no change of the buzzer.    *)
C3_OneCryAlertPerTrigger ==
    [][/\ smsCry' = smsCry + (IF CryFires THEN 1 ELSE 0)
       /\ (sampled' = "ok" /\ soundValue' = "LOW" /\ cradleState # "IDLE") =>
             /\ afterRules'.cradleState = cradleState
             /\ afterRules'.swingCycles = swingCycles
             /\ afterRules'.servoPos = servoPos
             /\ afterRules'.smsCry = smsCry
             /\ ~WetFires =>
                   /\ afterRules'.startCalls = 0
                   /\ afterRules'.isBuzzerActive = isBuzzerActive
                   /\ afterRules'.buzzerMode = buzzerMode
                   /\ afterRules'.beepCount = beepCount
                   /\ afterRules'.buzzerPatternStartTime = buzzerPatternStartTime
                   /\ afterRules'.smsWet = smsWet]_vars

(* the cry signal is sampled again well into the swing it started *)
C3_Witness ==
    /\ sampled = "ok" /\ soundValue = "LOW" /\ smsCry = 1
    /\ cradleState = "SWINGING_FORWARD" /\ fwdSweeps = 0
    /\ servoPos > CRADLE_POS_REST + 2

(* C4 as stated: a finished CryAlert pattern of count 3 has driven the pin *)
(* through exactly 3 ON pulses of at least 200 ms with OFF gaps of at      *)
(* least 200 ms, and leaves the pin LOW.                                   *)
C4_Original ==
    (smsCry > 0 /\ smsWet = 0 /\ ~isBuzzerActive) =>
        /\ pulses = BEEPS
        /\ ~shortPulse
        /\ ~shortGap
        /\ buzzerPin = "LOW"

(* C5: a call of startBuzzer while the buzzer is active leaves beepCount,  *)
(* the mode and the pattern start time as they were; of two calls in one   *)
(* pass the first wins.                                                    *)
C5_StartBuzzerFirstWins ==
    [][/\ (isBuzzerActive /\ afterRules'.startCalls > 0) =>
             /\ afterRules'.isBuzzerActive
             /\ afterRules'.buzzerMode = buzzerMode
             /\ afterRules'.beepCount = beepCount
             /\ afterRules'.buzzerPatternStartTime = buzzerPatternStartTime
       /\ (~isBuzzerActive /\ afterRules'.startCalls = 2) =>
             /\ afterRules'.buzzerMode = "CRY_ALERT"
             /\ afterRules'.beepCount = 2 * BEEPS
             /\ USub(afterRules'.buzzerPatternStartTime, currentTime') \in ReadLags]_vars

(* a cry trigger during a wet-alert pattern was dropped *)
C5_Witness ==
    /\ afterRules.dropped = 1 /\ afterRules.startCalls = 1
    /\ afterRules.buzzerMode = "WET_ALERT" /\ afterRules.smsCry = 1
    /\ sampled = "ok" /\ soundValue = "LOW"

(* C6 as stated: the wetness rule fires again no earlier than 5000 ms      *)
(* after the start time of its previous alert.                             *)
C6_Original ==
    [][(smsWet' > smsWet /\ smsWet > 0) =>
          UGe(USub(diaperAlertStartTime', diaperAlertStartTime), DIAPER_ALERT_MS)]_vars

(* C7 as stated: a fired diaper alert is active, stays active while less   *)
(* than 5000 ms have passed since its start, and is inactive from then on. *)
C7_Original ==
    [][/\ smsWet' > smsWet => isDiaperAlertActive'
       /\ (isDiaperAlertActive
           /\ ULt(USub(currentTime', diaperAlertStartTime), DIAPER_ALERT_MS))
             => isDiaperAlertActive'
       /\ (isDiaperAlertActive
           /\ UGe(USub(currentTime', diaperAlertStartTime), DIAPER_ALERT_MS))
             => ~isDiaperAlertActive']_vars

(* C8: after a successful sample the fan relay is ON (pin LOW) if and only *)
(* if the sampled temperature exceeds 30.0; a pass without a successful    *)
(* sample leaves the relay alone.                                          *)
C8_FanFollowsTemperature ==
    /\ [](sampled = "ok" =>
            ((fanPin = "LOW") <=> (temperature > TEMPERATURE_THRESHOLD)))
    /\ [][sampled' # "ok" => fanPin' = fanPin]_vars

(* a later sample read exactly 30.0 and left the fan off *)
C8_Witness ==
    /\ sampled = "ok" /\ temperature = TEMPERATURE_THRESHOLD /\ fanPin = "HIGH"
    /\ afterRules.fanPin = "HIGH" /\ smsCry + smsWet = 0 /\ ms > BOOT_DELAY + SENSOR_PERIOD

(* C9: a due sample with an invalid temperature evaluates no rule: the     *)
(* state after the sampling block is the state before the pass, whatever   *)
(* the cry and wetness readings; lastSensorReadTime is set to now, and a   *)
(* sample is only taken 500 ms or more after the previous one.             *)
C9_InvalidSampleSkipsRules ==
    [][/\ sampled' = "nan" => afterRules' = Snapshot(State)
       /\ sampled' # "no" =>
             /\ lastSensorReadTime' = currentTime'
             /\ UGe(USub(currentTime', lastSensorReadTime), SENSOR_PERIOD)
       /\ sampled' = "no" => lastSensorReadTime' = lastSensorReadTime]_vars

(* an invalid sample that showed both crying and wetness, with both rules  *)
(* ready to fire                                                           *)
C9_Witness ==
    /\ sampled = "nan" /\ soundValue = "LOW" /\ soilValue < WETNESS_THRESHOLD
    /\ afterRules.cradleState = "IDLE" /\ ~afterRules.isDiaperAlertActive
    /\ smsCry + smsWet = 0

(* C10: beepCount is never negative, and an inactive buzzer has mode Off   *)
(* and beepCount 0.                                                        *)
C10_InactiveBuzzerIsOff ==
    /\ beepCount >= 0
    /\ ~isBuzzerActive => (buzzerMode = "OFF" /\ beepCount = 0)
    /\ afterRules.beepCount >= 0
    /\ ~afterRules.isBuzzerActive =>
           (afterRules.buzzerMode = "OFF" /\ afterRules.beepCount = 0)

(* a pattern has run to its end *)
C10_Witness == ~isBuzzerActive /\ pulses > 0 /\ smsCry + smsWet > 0
(* what each of the three advances owns: its variables and its outputs *)
CradlePart(s) ==
    << s.cradleState, s.swingCycles, s.lastSwingTime, s.servoPos, s.lcdLine1 >>

BuzzerPart(s) ==
    << s.isBuzzerActive, s.buzzerMode, s.beepCount, s.buzzerPatternStartTime,
       s.buzzerPin >>

DiaperPart(s) == << s.isDiaperAlertActive, s.diaperAlertStartTime >>

(* C17: in every pass the three advances, made with the pass's now in any  *)
(* of their six orders, give the same state and the same outputs (servo,   *)
(* buzzer pin, fan pin, display line, alerts sent), and each of them       *)
(* leaves alone what the other two own.                                    *)
C17_AdvanceOrderIrrelevant ==
    LET s == AfterRulesState
        now == currentTime
    IN  /\ OrderFree(s, now)
        /\ BuzzerPart(ManageCradleSwing(s, now)) = BuzzerPart(s)
        /\ DiaperPart(ManageCradleSwing(s, now)) = DiaperPart(s)
        /\ CradlePart(ManageBuzzer(s, now)) = CradlePart(s)
        /\ DiaperPart(ManageBuzzer(s, now)) = DiaperPart(s)
        /\ CradlePart(ManageDiaperAlertMessage(s, now)) = CradlePart(s)
        /\ BuzzerPart(ManageDiaperAlertMessage(s, now)) = BuzzerPart(s)
        /\ \A name \in {"cradle", "buzzer", "diaper"} :
               /\ AdvanceOne(name, s, now).fanPin = s.fanPin
               /\ AdvanceOne(name, s, now).smsCry = s.smsCry
               /\ AdvanceOne(name, s, now).smsWet = s.smsWet

(* a pass in which all three advances acted: the cradle stepped, the       *)
(* buzzer pin changed and the diaper alert was cleared                     *)
C17_Witness ==
    /\ servoPos # afterRules.servoPos
    /\ buzzerPin # afterRules.buzzerPin
    /\ afterRules.isDiaperAlertActive /\ ~isDiaperAlertActive
(* C18: whenever the cradle is Idle the servo is at the rest angle 60, at  *)
(* boot, between passes and between the sampling block and the advances.  *)
C18_IdleAtRest ==
    /\ cradleState = "IDLE" => servoPos = CRADLE_POS_REST
    /\ afterRules.cradleState = "IDLE" => afterRules.servoPos = CRADLE_POS_REST

(* the Returning step that read 60 has just entered Idle and cleared the   *)
(* status line                                                             *)
C18_Witness ==
    /\ cradleState = "IDLE" /\ afterRules.cradleState = "RETURNING"
    /\ servoPos = CRADLE_POS_REST /\ lcdLine1 = "blank"

(* C19: whenever the buzzer is inactive its pin is LOW, between passes and *)
(* between the sampling block and the advances; the pin is HIGH only while *)
(* a pattern is active.                                                    *)
C19_InactiveBuzzerPinLow ==
    /\ ~isBuzzerActive => buzzerPin = "LOW"
    /\ ~afterRules.isBuzzerActive => afterRules.buzzerPin = "LOW"

(* the pass that finished a pattern found the pin HIGH and turned it LOW *)
C19_Witness ==
    /\ ~isBuzzerActive /\ afterRules.isBuzzerActive
    /\ afterRules.buzzerPin = "HIGH" /\ buzzerPin = "LOW"

(* C20: swingCycles stays within 0..3, and is at least 1 whenever the      *)
(* cradle is swinging forward or back, between passes and between the      *)
(* sampling block and the advances.                                        *)
C20_SwingCyclesRange ==
    /\ swingCycles \in 0..SWING_CYCLES
    /\ afterRules.swingCycles \in 0..SWING_CYCLES
    /\ cradleState \in {"SWINGING_FORWARD", "SWINGING_BACK"} => swingCycles >= 1
    /\ afterRules.cradleState \in {"SWINGING_FORWARD", "SWINGING_BACK"} =>
           afterRules.swingCycles >= 1

(* the last back sweep has reached 30 with one cycle left, and the step    *)
(* that counts it down to 0 leaves the swing for Returning                 *)
C20_Witness ==
    /\ afterRules.cradleState = "SWINGING_BACK" /\ afterRules.swingCycles = 1
    /\ cradleState = "RETURNING" /\ swingCycles = 0
(* C13 as stated: when the wetness rule fires in a pass, the start time of *)
(* the diaper alert is the pass's now, so the expiry check of the same     *)
(* pass compares a start time that is not later than its now.              *)
C13_Original ==
    [][WetFires => /\ afterRules'.diaperAlertStartTime = currentTime'
                   /\ afterRules'.diaperUp <= trueTime'.now]_vars
(* the ON and OFF time of one beep of the pattern armed after the rules *)
BeepPeriod ==
    IF afterRules'.buzzerMode = "CRY_ALERT" THEN CRY_ON + CRY_OFF ELSE WET_ON + WET_OFF

(* C14 as stated: while the buzzer is active, beepCount is decreased, by   *)
(* 2, and the pattern start time is reset only in a pass where at least    *)
(* on+off ms have really elapsed since the pattern start time was last     *)
(* set, also in the pass that armed the pattern.                           *)
C14_Original ==
    [][(afterRules'.isBuzzerActive
        /\ (beepCount' # afterRules'.beepCount
            \/ buzzerPatternStartTime' # afterRules'.buzzerPatternStartTime)) =>
           /\ beepCount' = afterRules'.beepCount - 2
           /\ buzzerPatternStartTime' = currentTime'
           /\ trueTime'.now - afterRules'.patternUp >= BeepPeriod]_vars
CradleChanged ==
    \/ servoPos' # afterRules'.servoPos
    \/ cradleState' # afterRules'.cradleState
    \/ swingCycles' # afterRules'.swingCycles
    \/ lastSwingTime' # lastSwingTime

C11_SwingEnds ==
    (cradleState # "IDLE") ~> (cradleState = "IDLE" /\ servoPos = CRADLE_POS_REST)

(* the swing is over and passes have been made since its last step *)
C11_Witness ==
    /\ cradleState = "IDLE" /\ swingCycles = 0
    /\ fwdSweeps = SWING_CYCLES /\ backSweeps = SWING_CYCLES
    /\ trueTime.now > trueTime.swing
(* C12: in every pass, also after millis() has wrapped to 0, the unsigned  *)
(* difference of the pass's now and a time stamp that is not later than it *)
(* is the time that really elapsed since the stamp was set: for the        *)
(* sampling timer, the cradle's step timer, the buzzer's pattern timer and *)
(* the diaper alert timer.                                                 *)
C12_WrapSafeElapsed ==
    [][/\ USub(currentTime', lastSensorReadTime) = trueTime'.now - trueTime.sample
       /\ USub(currentTime', lastSwingTime) = trueTime'.now - trueTime.swing
       /\ afterRules'.patternUp <= trueTime'.now =>
              USub(currentTime', afterRules'.buzzerPatternStartTime)
                  = trueTime'.now - afterRules'.patternUp
       /\ afterRules'.diaperUp <= trueTime'.now =>
              USub(currentTime', afterRules'.diaperAlertStartTime)
                  = trueTime'.now - afterRules'.diaperUp]_vars

(* a diaper alert raised before the wrap of millis() was cleared after it, *)
(* more than 5000 ms later, while the cradle swings and the buzzer sounds  *)
C12_Witness ==
    /\ diaperAlertStartTime < 0 /\ currentTime >= 0
    /\ afterRules.isDiaperAlertActive /\ ~isDiaperAlertActive
    /\ trueTime.now - trueTime.diaper > DIAPER_ALERT_MS
    /\ cradleState # "IDLE" /\ isBuzzerActive
====
